---- MODULE Spec2Model ----
(***************************************************************************)
(* Model of the QA/QC compliance checker core: app/extraction.py (text to  *)
(* EquipmentData) and app/comparison.py (EquipmentData x EquipmentData to  *)
(* a list of ComparisonResult).                                            *)
(*                                                                         *)
(* Conventions                                                             *)
(*   - Optional[T]: None is <<>>, a present value x is <<x>>.              *)
(*   - str: a sequence of one-character strings.                           *)
(*   - float: numeric values are exact decimals carried as an integer      *)
(*     count of thousandths (400.0 is 400000), so that value / 1000.0 of a *)
(*     whole number and every parsed decimal with at most three places is  *)
(*     exact.                                                              *)
(*   - dict: a set of <<key, value>> pairs.                                *)
(***************************************************************************)
EXTENDS Integers, Sequences, FiniteSets, TLC

VARIABLES pc, field, nameplate_attr, submittal_attr, result,
          nameplate, submittal, results, text, data, raised,
          installed, uploads, steps, messages, exc,
          heap, calls

\* the state of a front-end run: the environment's packages, the widgets'
\* values, the steps main has taken, the st.error messages shown and the
\* exception in flight
appVars == <<installed, uploads, steps, messages, exc>>

\* the objects allocated by concurrent calls, and the calls' frames
heapVars == <<heap, calls>>

vars == <<pc, field, nameplate_attr, submittal_attr, result,
          nameplate, submittal, results, text, data, raised,
          installed, uploads, steps, messages, exc, heap, calls>>

(***************************************************************************)
(* Bounds of the explored input space.                                     *)
(***************************************************************************)
MaxStrLen == 2
Spread == 6
MaxSmall == 2
MaxWords == 2

(***************************************************************************)
(* Optional values and strings.                                            *)
(***************************************************************************)
None == <<>>

Some(x) == <<x>>

IsNone(o) == o = <<>>

Get(o) == o[1]

UpperChars == <<"A","B","C","D","E","F","G","H","I","J","K","L","M",
                "N","O","P","Q","R","S","T","U","V","W","X","Y","Z">>

LowerChars == <<"a","b","c","d","e","f","g","h","i","j","k","l","m",
                "n","o","p","q","r","s","t","u","v","w","x","y","z">>

DigitChars == <<"0","1","2","3","4","5","6","7","8","9">>

Range(s) == {s[i] : i \in 1..Len(s)}

Whitespace == {" "}

LowerChar(c) ==
    IF c \in Range(UpperChars)
    THEN LowerChars[CHOOSE i \in 1..26 : UpperChars[i] = c]
    ELSE c

\* str.lower()
Lower(s) == [i \in 1..Len(s) |-> LowerChar(s[i])]

UpperChar(c) ==
    IF c \in Range(LowerChars)
    THEN UpperChars[CHOOSE i \in 1..26 : LowerChars[i] = c]
    ELSE c

\* str.upper()
Upper(s) == [i \in 1..Len(s) |-> UpperChar(s[i])]

\* str.strip(): drop leading and trailing whitespace
Strip(s) ==
    LET keep == {i \in 1..Len(s) : s[i] \notin Whitespace}
    IN  IF keep = {} THEN <<>>
        ELSE LET lo == CHOOSE i \in keep : \A j \in keep : i <= j
                 hi == CHOOSE i \in keep : \A j \in keep : j <= i
             IN  SubSeq(s, lo, hi)

(***************************************************************************)
(* extraction.py: the attribute model                                      *)
(***************************************************************************)
EmptySource == {}

\* AttributeValue(value, unit, source) with __post_init__ trimming the unit
AttributeValue(value, unit, source) ==
    [value  |-> value,
     unit   |-> IF IsNone(unit) THEN None ELSE Some(Strip(Get(unit))),
     source |-> source]

FieldNames == <<"manufacturer", "model", "serial_number", "voltage", "current",
                "power", "frequency", "ip_rating", "certification">>

\* EquipmentData(): every field defaults to AttributeValue(None)
EquipmentData == [f \in Range(FieldNames) |-> AttributeValue(None, None, EmptySource)]

(***************************************************************************)
(* comparison.py                                                           *)
(***************************************************************************)
Thousand == 1000

tolerance_pct == 5

Abs(x) == IF x < 0 THEN 0 - x ELSE x

\* the number n as a float of the model (thousandths)
Num(n) == n * Thousand

normalise_power_no_watt(value, unit) == value

\* normalise_power: value / 1000.0 for W (exact for the whole-watt values
\* the model draws), value itself otherwise
normalise_power(value, unit) ==
    IF IsNone(unit) THEN value
    ELSE LET u == Lower(Get(unit))
         IN  IF u = <<"w">> THEN value \div Thousand
             ELSE IF u \in {<<"k","w">>, <<"k","v","a">>} THEN value
             ELSE value

normalise_voltage(value, unit) == value

normalise_current(value, unit) == value

normalise_frequency(value, unit) == value

\* diff_pct = abs(n_val - s_val) / s_val * 100.0 is the exact rational
\* (Abs(n_val - s_val) * 100) / s_val; it is <= 0 when s_val < 0.  The two
\* tests on it are written with integer division so that no product leaves
\* the 32-bit integers: for a, t >= 0, a * 100 <= t iff a <= t \div 100.
\* diff_pct < 1e-6, for s_val # 0
DiffBelowMicro(n_val, s_val) ==
    IF s_val < 0 THEN TRUE
    ELSE Abs(n_val - s_val) <= (s_val - 1) \div 100000000

DiffWithinTolerance_of_reference(n_val, s_val) ==
    IF n_val < 0 THEN TRUE
    ELSE Abs(n_val - s_val) <= (tolerance_pct * n_val) \div 100

DiffWithinTolerance_exclusive(n_val, s_val) ==
    IF s_val < 0 THEN TRUE
    ELSE Abs(n_val - s_val) <= (tolerance_pct * s_val - 1) \div 100

\* diff_pct <= tolerance_pct, for s_val # 0
DiffWithinTolerance(n_val, s_val) ==
    IF s_val < 0 THEN TRUE
    ELSE Abs(n_val - s_val) <= (tolerance_pct * s_val) \div 100

SubmittalIsZero_unchecked(s_val) == FALSE

\* the guard of line 82
SubmittalIsZero(s_val) == s_val = 0

\* a (status, comment) pair; a comment is its template and the values
\* formatted into it (the percentage of the two tolerance comments is left
\* out of the comment)
Outcome(status, comment) == [status |-> status, comment |-> comment]

Comment(template) == [template |-> template]

MissingOutcome_lenient(n_value, s_value) ==
    IF IsNone(n_value) /\ IsNone(s_value)
    THEN Outcome("Not Found", Comment("Value missing in both nameplate and submittal."))
    ELSE IF IsNone(n_value)
    THEN Outcome("Non-Compliant", Comment("No value on nameplate."))
    ELSE Outcome("Compliant", Comment("No value in submittal."))

\* the three missing-value returns of compare_numeric (lines 70-75)
MissingOutcome(n_value, s_value) ==
    IF IsNone(n_value) /\ IsNone(s_value)
    THEN Outcome("Not Found", Comment("Value missing in both nameplate and submittal."))
    ELSE IF IsNone(n_value)
    THEN Outcome("Non-Compliant", Comment("No value on nameplate."))
    ELSE Outcome("Non-Compliant", Comment("No value in submittal."))

\* compare_numeric with the default tolerance_pct; n_unit and s_unit are
\* accepted and never read
compare_numeric(n_value, n_unit, s_value, s_unit) ==
    IF IsNone(n_value) \/ IsNone(s_value)
    THEN MissingOutcome(n_value, s_value)
    ELSE LET n_val == Get(n_value)
             s_val == Get(s_value)
         IN  IF n_val = 0 /\ s_val = 0
             THEN Outcome("Compliant", Comment("Both values are zero."))
             ELSE IF SubmittalIsZero(s_val)
             THEN Outcome("Non-Compliant",
                          [template |-> "Submittal value is zero while nameplate is {n_val}.",
                           n_val |-> n_val])
             ELSE IF s_val = 0
             THEN Outcome("ZeroDivisionError", Comment("float division by zero"))
             ELSE IF DiffBelowMicro(n_val, s_val)
             THEN Outcome("Compliant", Comment("Values are identical."))
             ELSE IF DiffWithinTolerance(n_val, s_val)
             THEN Outcome("Minor Deviation",
                          Comment("Difference of {diff_pct:.2f}% within tolerance."))
             ELSE Outcome("Non-Compliant",
                          Comment("Difference of {diff_pct:.2f}% exceeds tolerance."))

numeric_fields == {"voltage", "current", "power", "frequency"}

\* the per-field dispatch of lines 118-129
Normalise(f, value, unit) ==
    IF f = "power" THEN normalise_power(value, unit)
    ELSE IF f = "voltage" THEN normalise_voltage(value, unit)
    ELSE IF f = "current" THEN normalise_current(value, unit)
    ELSE normalise_frequency(value, unit)

NoneStr == <<"N","o","n","e">>

\* f"{val} {unit}": the number and the unit's text, None printing as "None"
FormatNumeric(val, unit) == <<val, IF IsNone(unit) THEN NoneStr ELSE Get(unit)>>

CategoricalEqual_exact(a, b) == a = b

\* str(np_val).strip().lower() == str(sm_val).strip().lower()
CategoricalEqual(a, b) == Lower(Strip(a)) = Lower(Strip(b))

ComparisonResult(f, nameplate_value, submittal_value, outcome, n_source, s_source) ==
    [field            |-> f,
     nameplate_value  |-> nameplate_value,
     submittal_value  |-> submittal_value,
     status           |-> outcome.status,
     comment          |-> outcome.comment,
     nameplate_source |-> n_source,
     submittal_source |-> s_source]

compare_attribute(n_attr, s_attr, f) ==
    LET np_val  == n_attr.value
        np_unit == n_attr.unit
        sm_val  == s_attr.value
        sm_unit == s_attr.unit
    IN  IF f \in numeric_fields
        THEN LET np_norm == IF IsNone(np_val) THEN None
                            ELSE Some(Normalise(f, Get(np_val), np_unit))
                 sm_norm == IF IsNone(sm_val) THEN None
                            ELSE Some(Normalise(f, Get(sm_val), sm_unit))
             IN  ComparisonResult(f,
                    IF IsNone(np_val) THEN None ELSE Some(FormatNumeric(Get(np_val), np_unit)),
                    IF IsNone(sm_val) THEN None ELSE Some(FormatNumeric(Get(sm_val), sm_unit)),
                    compare_numeric(np_norm, np_unit, sm_norm, sm_unit),
                    n_attr.source, s_attr.source)
        ELSE ComparisonResult(f, np_val, sm_val,
                IF IsNone(np_val) /\ IsNone(sm_val)
                THEN Outcome("Not Found", Comment("Value missing in both nameplate and submittal."))
                ELSE IF IsNone(np_val)
                THEN Outcome("Non-Compliant", Comment("No value on nameplate."))
                ELSE IF IsNone(sm_val)
                THEN Outcome("Non-Compliant", Comment("No value in submittal."))
                ELSE IF CategoricalEqual(Get(np_val), Get(sm_val))
                THEN Outcome("Compliant", Comment("Values match."))
                ELSE Outcome("Non-Compliant",
                             [template |-> "Nameplate value '{np_val}' differs from submittal value '{sm_val}'.",
                              np_val |-> Get(np_val), sm_val |-> Get(sm_val)]),
                n_attr.source, s_attr.source)

compare_equipment_reversed(n, s) ==
    [i \in 1..Len(FieldNames) |->
        compare_attribute(n[FieldNames[Len(FieldNames) + 1 - i]],
                          s[FieldNames[Len(FieldNames) + 1 - i]],
                          FieldNames[Len(FieldNames) + 1 - i])]

\* compare_equipment: one result per declared field, in declaration order
compare_equipment(n, s) ==
    [i \in 1..Len(FieldNames) |-> compare_attribute(n[FieldNames[i]], s[FieldNames[i]], FieldNames[i])]

(***************************************************************************)
(* extraction.py: regular-expression search, as re.search performs it on   *)
(* the patterns of parse_nameplate_text (leftmost start, alternatives in   *)
(* order, greedy repetition with backtracking).                            *)
(***************************************************************************)
Digits == Range(DigitChars)

\* \w on the characters of the model: letters, digits and the underscore
WordClass == Range(LowerChars) \cup Range(UpperChars) \cup Digits \cup {"_"}

\* [\w\s&\.]
ManufacturerClass == WordClass \cup Whitespace \cup {"&", "."}

\* [\w\-\/]
ModelClass == WordClass \cup {"-", "/"}

Min(S) == CHOOSE x \in S : \A y \in S : x <= y

Max(S) == CHOOSE x \in S : \A y \in S : y <= x

\* the literal lit stands in s at position i
LitAt(s, i, lit) ==
    /\ i >= 1 /\ i + Len(lit) - 1 <= Len(s)
    /\ \A k \in 1..Len(lit) : s[i + k - 1] = lit[k]

\* the position after the longest run of class characters starting at i
RunEnd(s, i, class) ==
    Min({j \in i..(Len(s) + 1) : j = Len(s) + 1 \/ s[j] \notin class})

\* \s*[:\-]\s*(class+) from position j: the group's <<first, last>>, or None.
\* The first \s* is followed by a separator, so only its longest run can
\* match; the second gives characters back until the group can start.
LabelTail(s, j, class) ==
    LET k == RunEnd(s, j, Whitespace)
    IN  IF k > Len(s) \/ s[k] \notin {":", "-"} THEN None
        ELSE LET m      == RunEnd(s, k + 1, Whitespace)
                 starts == {g \in (k + 1)..m : g <= Len(s) /\ s[g] \in class}
             IN  IF starts = {} THEN None
                 ELSE Some(<<Max(starts), RunEnd(s, Max(starts), class) - 1>>)

\* (?:label|label|...)\s*[:\-]\s*(class+) anchored at i
LabelAt(s, i, labels, class) ==
    LET ok == {n \in 1..Len(labels) :
                  LitAt(s, i, labels[n]) /\ ~IsNone(LabelTail(s, i + Len(labels[n]), class))}
    IN  IF ok = {} THEN None
        ELSE LabelTail(s, i + Len(labels[Min(ok)]), class)

\* re.search of a label pattern: group(1), or None
SearchLabel(s, labels, class) ==
    LET hits == {i \in 1..Len(s) : ~IsNone(LabelAt(s, i, labels, class))}
    IN  IF hits = {} THEN None
        ELSE LET g == Get(LabelAt(s, Min(hits), labels, class))
             IN  Some(SubSeq(s, g[1], g[2]))

\* the first alternative of units standing at position j, or None
UnitAt(s, j, units) ==
    LET ok == {n \in 1..Len(units) : LitAt(s, j, units[n])}
    IN  IF ok = {} THEN None ELSE Some(units[Min(ok)])

\* ([0-9]+(?:\.[0-9]+)?)\s*(unit|unit|...) anchored at i: <<group(1), group(2)>>
\* or None.  What follows a shortened run of digits is a digit, which no
\* unit starts with, so only the longest runs can match.
NumberAt(s, i, units) ==
    IF i > Len(s) \/ s[i] \notin Digits THEN None
    ELSE LET j    == RunEnd(s, i, Digits)
             frac == j + 1 <= Len(s) /\ s[j] = "." /\ s[j + 1] \in Digits
             e    == IF frac THEN RunEnd(s, j + 1, Digits) ELSE j
             u    == UnitAt(s, RunEnd(s, e, Whitespace), units)
         IN  IF IsNone(u) THEN None ELSE Some(<<SubSeq(s, i, e - 1), Get(u)>>)

\* re.search of a number-then-unit pattern
SearchNumber(s, units) ==
    LET hits == {i \in 1..Len(s) : ~IsNone(NumberAt(s, i, units))}
    IN  IF hits = {} THEN None ELSE NumberAt(s, Min(hits), units)

\* ip\s*([0-9]{2}): group(1), or None
SearchIp(s) ==
    LET at(i) == LET k == RunEnd(s, i + 2, Whitespace)
                 IN  IF LitAt(s, i, <<"i","p">>) /\ k + 1 <= Len(s)
                        /\ s[k] \in Digits /\ s[k + 1] \in Digits
                     THEN Some(SubSeq(s, k, k + 1)) ELSE None
        hits == {i \in 1..Len(s) : ~IsNone(at(i))}
    IN  IF hits = {} THEN None ELSE at(Min(hits))

\* keyword in lower
Contains(s, lit) == \E i \in 1..(Len(s) + 1) : LitAt(s, i, lit)

(***************************************************************************)
(* extraction.py: parse_numeric_with_unit and parse_nameplate_text         *)
(***************************************************************************)
NotComma(c) == c # ","

\* str.replace(",", "")
RemoveCommas(s) == SelectSeq(s, NotComma)

DigitValue(c) == (CHOOSE i \in 1..10 : DigitChars[i] = c) - 1

RECURSIVE DigitsValue(_)
DigitsValue(ds) ==
    IF ds = <<>> THEN 0
    ELSE DigitsValue(SubSeq(ds, 1, Len(ds) - 1)) * 10 + DigitValue(ds[Len(ds)])

\* the strings float() accepts among those made of digits, commas and dots:
\* digits with at most one dot and at least one digit
IsFloatLiteral(str) ==
    /\ \A k \in 1..Len(str) : str[k] \in Digits \cup {"."}
    /\ Cardinality({k \in 1..Len(str) : str[k] = "."}) <= 1
    /\ \E k \in 1..Len(str) : str[k] \in Digits

\* float(str) of such a literal, in thousandths (decimal places after the
\* third are dropped; the texts of the model have none)
Float(str) ==
    LET dots == {k \in 1..Len(str) : str[k] = "."}
        d    == IF dots = {} THEN Len(str) + 1 ELSE Min(dots)
        frac == SubSeq(SubSeq(str, d + 1, Len(str)) \o <<"0","0","0">>, 1, 3)
    IN  DigitsValue(SubSeq(str, 1, d - 1)) * Thousand + DigitsValue(frac)

\* float(str): the value, or the exception it raises
TryFloat(str) ==
    IF IsFloatLiteral(str) THEN [value |-> Some(Float(str)), error |-> None]
    ELSE [value |-> None, error |-> Some("ValueError")]

\* except ValueError
Caught(error) == error = Some("ValueError")

\* parse_numeric_with_unit: value and unit, both None when no pattern (each
\* a sequence of unit alternatives) yields a parsable match; error is the
\* exception that escapes the call, if any
RECURSIVE parse_numeric_with_unit(_, _)
parse_numeric_with_unit(s, patterns) ==
    IF patterns = <<>> THEN [value |-> None, unit |-> None, error |-> None]
    ELSE LET match  == SearchNumber(s, Head(patterns))
             parsed == TryFloat(RemoveCommas(Get(match)[1]))
         IN  IF IsNone(match) THEN parse_numeric_with_unit(s, Tail(patterns))
             ELSE IF ~IsNone(parsed.error)
             THEN IF Caught(parsed.error)
                  THEN parse_numeric_with_unit(s, Tail(patterns))      \* continue
                  ELSE [value |-> None, unit |-> None, error |-> parsed.error]
             ELSE [value |-> parsed.value, unit |-> Some(Get(match)[2]), error |-> None]

voltage_patterns == << <<<<"v">>, <<"v","a","c">>, <<"v","o","l","t","s">>>> >>

current_patterns == << <<<<"a">>, <<"a","m","p","s">>, <<"a","m","p","e","r","e">>>> >>

power_patterns == << <<<<"k","w">>, <<"k","v","a">>, <<"w">>>> >>

frequency_patterns == << <<<<"h","z">>>> >>

NumericPatterns(f) ==
    IF f = "voltage" THEN voltage_patterns
    ELSE IF f = "current" THEN current_patterns
    ELSE IF f = "power" THEN power_patterns
    ELSE frequency_patterns

CertKeywords == <<<<"a","t","e","x">>, <<"c","e">>, <<"u","l">>>>

\* ", ".join(certs) of the upper-cased keywords found, in keyword order
RECURSIVE JoinCerts(_, _)
JoinCerts(lower, n) ==
    IF n > Len(CertKeywords) THEN <<>>
    ELSE LET rest == JoinCerts(lower, n + 1)
         IN  IF ~Contains(lower, CertKeywords[n]) THEN rest
             ELSE IF rest = <<>> THEN Upper(CertKeywords[n])
             ELSE Upper(CertKeywords[n]) \o <<",", " ">> \o rest

ManufacturerLabels == <<<<"m","a","n","u","f","a","c","t","u","r","e","r">>, <<"m","f","r">>>>

ModelLabels == <<<<"m","o","d","e","l">>, <<"m","d","l">>>>

SerialLabels == <<<<"s","e","r","i","a","l"," ","n","u","m","b","e","r">>, <<"s","/","n">>, <<"s","n">>>>

FieldOrDefault_unguarded(found, unit) ==
    AttributeValue(IF IsNone(found) THEN Some(<<>>) ELSE found, unit, EmptySource)

\* a field is assigned only when its pattern matched
FieldOrDefault(found, unit) ==
    IF IsNone(found) THEN AttributeValue(None, None, EmptySource)
    ELSE AttributeValue(found, unit, EmptySource)

parse_nameplate_text(txt) ==
    LET lower == Lower(txt)
        mfr_match   == SearchLabel(lower, ManufacturerLabels, ManufacturerClass)
        model_match == SearchLabel(lower, ModelLabels, ModelClass)
        sn_match    == SearchLabel(lower, SerialLabels, ModelClass)
        ip_match    == SearchIp(lower)
        certs       == JoinCerts(lower, 1)
    IN  [f \in Range(FieldNames) |->
            IF f = "manufacturer"
            THEN FieldOrDefault(IF IsNone(mfr_match) THEN None ELSE Some(Strip(Get(mfr_match))), None)
            ELSE IF f = "model"
            THEN FieldOrDefault(IF IsNone(model_match) THEN None ELSE Some(Strip(Get(model_match))), None)
            ELSE IF f = "serial_number"
            THEN FieldOrDefault(IF IsNone(sn_match) THEN None ELSE Some(Strip(Get(sn_match))), None)
            ELSE IF f \in numeric_fields
            THEN LET vu == parse_numeric_with_unit(lower, NumericPatterns(f))
                 IN  FieldOrDefault(vu.value, vu.unit)
            ELSE IF f = "ip_rating"
            THEN FieldOrDefault(IF IsNone(ip_match) THEN None
                                ELSE Some(<<"I","P">> \o Get(ip_match)), None)
            ELSE FieldOrDefault(IF certs = <<>> THEN None ELSE Some(certs), None)]

\* the exception that escapes parse_nameplate_text, if any: only the calls
\* of parse_numeric_with_unit can pass one on
ParseError(txt) ==
    LET errors == {parse_numeric_with_unit(Lower(txt), NumericPatterns(f)).error : f \in numeric_fields}
                     \ {None}
    IN  IF errors = {} THEN None ELSE CHOOSE e \in errors : TRUE

\* parse_submittal_text delegates to parse_nameplate_text
parse_submittal_text(txt) == parse_nameplate_text(txt)

(***************************************************************************)
(* Inputs of the comparison specifications.                                *)
(***************************************************************************)
categorical_fields == Range(FieldNames) \ numeric_fields

CatAlphabet == {"A", "a", "b", " "}

Strings(alphabet, n) == UNION {[1..k -> alphabet] : k \in 0..n}

CatValues == Strings(CatAlphabet, MaxStrLen) \cup {<<"A","B","B">>, <<"a","b","b">>}

\* whole numbers around the tolerance band of 100, small ones, and a negative
BaseNumbers == {0 - 100} \cup (0..MaxSmall) \cup {5} \cup ((100 - Spread)..(100 + Spread))

UnitTags(f) ==
    IF f = "power" THEN {<<"k","w">>, <<"k","V","A">>, <<"h","p">>}
    ELSE IF f = "voltage" THEN {<<"v">>, <<"k","v">>}
    ELSE IF f = "current" THEN {<<"a">>, <<"m","a">>}
    ELSE {<<"h","z">>, <<" ","H","z">>}

WattTags == {<<"w">>, <<"W"," ">>}

SampleSources == {<<EmptySource, EmptySource>>,
                  <<{<<"page", 1>>}, {<<"page", 2>>}>>}

\* the (value, unit) pairs a numeric field is drawn from: whole numbers, and
\* whole thousands of watts, on which the floating-point arithmetic of
\* compare_numeric and normalise_power is exact enough to agree with the
\* exact arithmetic of the model
NumericPairs(f) ==
    {<<None, None>>}
    \cup {<<Some(Num(n)), u>> : n \in BaseNumbers, u \in {None} \cup {Some(t) : t \in UnitTags(f)}}
    \cup (IF f = "power"
          THEN {<<Some(Num(n * Thousand)), Some(t)>> : n \in BaseNumbers, t \in WattTags}
          ELSE {})

CategoricalPairs == {<<None, None>>} \cup {<<Some(v), None>> : v \in CatValues}

AttrPairs(f) == IF f \in numeric_fields THEN NumericPairs(f) ELSE CategoricalPairs

Unused == "unused"

\* no front-end run and no concurrent calls are part of the specification
AppIdle ==
    /\ installed = Unused /\ uploads = Unused /\ steps = Unused
    /\ messages = Unused /\ exc = Unused

HeapIdle == heap = Unused /\ calls = Unused

(***************************************************************************)
(* SpecAttr: one call of compare_attribute on drawn arguments.             *)
(***************************************************************************)
InitAttr ==
    /\ pc = "start"
    /\ field \in Range(FieldNames)
    /\ \E src \in SampleSources :
         /\ nameplate_attr \in {AttributeValue(p[1], p[2], src[1]) : p \in AttrPairs(field)}
         /\ submittal_attr \in {AttributeValue(p[1], p[2], src[2]) : p \in AttrPairs(field)}
    /\ result = None
    /\ nameplate = Unused /\ submittal = Unused /\ results = None
    /\ text = Unused /\ data = Unused /\ raised = FALSE
    /\ AppIdle /\ HeapIdle

CompareAttribute ==
    /\ pc = "start"
    /\ result' = Some(compare_attribute(nameplate_attr, submittal_attr, field))
    /\ pc' = "done"
    /\ UNCHANGED <<field, nameplate_attr, submittal_attr, nameplate, submittal,
                   results, text, data, raised,
                   appVars, heapVars>>

NextAttr == CompareAttribute

SpecAttr == InitAttr /\ [][NextAttr]_vars

(***************************************************************************)
(* SpecEquip: one call of compare_equipment on two drawn records; each     *)
(* field of each record is either absent or holds that side's sample.      *)
(***************************************************************************)
SampleValue(f, side) ==
    IF f = "voltage" THEN <<Some(Num(IF side = "nameplate" THEN 105 ELSE 100)), Some(<<"v">>)>>
    ELSE IF f = "current" THEN <<Some(Num(10)), Some(<<"a">>)>>
    ELSE IF f = "power" THEN <<Some(Num(IF side = "nameplate" THEN 5000 ELSE 5)),
                               Some(IF side = "nameplate" THEN <<"w">> ELSE <<"k","w">>)>>
    ELSE IF f = "frequency" THEN <<Some(Num(IF side = "nameplate" THEN 50 ELSE 60)), Some(<<"h","z">>)>>
    ELSE IF f = "manufacturer" THEN <<Some(IF side = "nameplate" THEN <<"A","B","B">> ELSE <<"a","b","b">>), None>>
    ELSE IF f = "model" THEN <<Some(IF side = "nameplate" THEN <<"m","1">> ELSE <<"m","2">>), None>>
    ELSE <<Some(<<"x">>), None>>

SampleRecord(present, side) ==
    [f \in Range(FieldNames) |->
        IF f \in present
        THEN AttributeValue(SampleValue(f, side)[1], SampleValue(f, side)[2], EmptySource)
        ELSE AttributeValue(None, None, EmptySource)]

InitEquip ==
    /\ pc = "start"
    /\ nameplate \in {SampleRecord(P, "nameplate") : P \in SUBSET Range(FieldNames)}
    /\ submittal \in {SampleRecord(P, "submittal") : P \in SUBSET Range(FieldNames)}
    /\ results = None
    /\ field = Unused /\ nameplate_attr = Unused /\ submittal_attr = Unused /\ result = None
    /\ text = Unused /\ data = Unused /\ raised = FALSE
    /\ AppIdle /\ HeapIdle

CompareEquipment ==
    /\ pc = "start"
    /\ results' = Some(compare_equipment(nameplate, submittal))
    /\ pc' = "done"
    /\ UNCHANGED <<field, nameplate_attr, submittal_attr, result, nameplate, submittal,
                   text, data, raised,
                   appVars, heapVars>>

NextEquip == CompareEquipment

SpecEquip == InitEquip /\ [][NextEquip]_vars

EquipDone == pc = "done" /\ ~IsNone(results)

\* C2: compare_equipment returns exactly one result per schema field, nine
\* in all, in declaration order, result i named after field i, whichever
\* fields are None on either side.
C2_OneResultPerField ==
    EquipDone =>
        LET schema == <<"manufacturer", "model", "serial_number", "voltage", "current",
                        "power", "frequency", "ip_rating", "certification">>
        IN  /\ Len(Get(results)) = 9
            /\ \A i \in 1..9 : Get(results)[i].field = schema[i]

C2_Witness ==
    /\ EquipDone
    /\ IsNone(nameplate["model"].value) /\ ~IsNone(submittal["model"].value)
    /\ ~IsNone(nameplate["voltage"].value) /\ IsNone(submittal["voltage"].value)
    /\ Len(Get(results)) = 9
    /\ Get(results)[4].field = "voltage" /\ Get(results)[4].status = "Non-Compliant"

(***************************************************************************)
(* SpecParse: one call of parse_nameplate_text or parse_submittal_text on  *)
(* a drawn text: the end-to-end example, or up to MaxWords OCR words       *)
(* joined by single spaces as words_to_text joins them.                    *)
(***************************************************************************)
Words ==
    { <<"M","a","n","u","f","a","c","t","u","r","e","r",":">>,
      <<"A","B","B">>,
      <<"M","o","d","e","l",":">>,
      <<"M","1","0","0">>,
      <<"4","0","0","V">>,
      <<"5","0","H","z">>,
      <<"I","P","6","5">>,
      <<"A","T","E","X">>,
      <<"C","E">>,
      <<"1",",","0","0","0">>,
      <<"V">>,
      <<"1",",","5","0","0">>,
      <<"k","W">>,
      <<"2",",","0","0","0">>,
      <<"A">>,
      <<"5",".","5">>,
      <<"m","f","r">>,
      <<"-">>,
      <<"S","/","N",":">>,
      <<"X","-","1">>,
      <<"U","L">>,
      <<"1","2">> }

RECURSIVE JoinWords(_)
JoinWords(ws) ==
    IF ws = <<>> THEN <<>>
    ELSE IF Len(ws) = 1 THEN ws[1]
    ELSE ws[1] \o <<" ">> \o JoinWords(Tail(ws))

ExampleText ==
    <<"M","a","n","u","f","a","c","t","u","r","e","r",":"," ","A","B","B"," ","M","o","d","e","l",":"," ","M","1","0","0"," ","4","0","0","V"," ","5","0","H","z"," ","I","P","6","5"," ","A","T","E","X"," ","C","E">>

Texts == {ExampleText} \cup {JoinWords(ws) : ws \in UNION {[1..k -> Words] : k \in 0..MaxWords}}

InitParse ==
    /\ pc = "start"
    /\ text \in Texts
    /\ data = None
    /\ raised = FALSE
    /\ AppIdle /\ HeapIdle
    /\ field = Unused /\ nameplate_attr = Unused /\ submittal_attr = Unused /\ result = None
    /\ nameplate = Unused /\ submittal = Unused /\ results = None

ParseNameplateText ==
    /\ pc = "start"
    /\ raised' = ~IsNone(ParseError(text))
    /\ data' = IF raised' THEN None ELSE Some(parse_nameplate_text(text))
    /\ pc' = "nameplate_parsed"
    /\ UNCHANGED <<field, nameplate_attr, submittal_attr, result, nameplate, submittal,
                   results, text,
                   appVars, heapVars>>

ParseSubmittalText ==
    /\ pc = "start"
    /\ raised' = ~IsNone(ParseError(text))
    /\ data' = IF raised' THEN None ELSE Some(parse_submittal_text(text))
    /\ pc' = "submittal_parsed"
    /\ UNCHANGED <<field, nameplate_attr, submittal_attr, result, nameplate, submittal,
                   results, text,
                   appVars, heapVars>>

NextParse == ParseNameplateText \/ ParseSubmittalText

SpecParse == InitParse /\ [][NextParse]_vars

(***************************************************************************)
(* ocr.py: the import guard and the two OCR entry points                   *)
(***************************************************************************)
Packages == {"pillow", "pytesseract", "pdfplumber"}

\* the module-level try/except of lines 23-31: the three imports run in
\* order and stop at the first that fails; the handler then binds PIL,
\* pytesseract and pdfplumber to None and leaves the name Image alone, so
\* Image is unbound when pillow is the import that failed
ImportGuard(inst) ==
    IF Packages \subseteq inst
    THEN [Image |-> "module", pytesseract |-> "module", pdfplumber |-> "module"]
    ELSE [Image |-> IF "pillow" \in inst THEN "module" ELSE "unbound",
          pytesseract |-> "None", pdfplumber |-> "None"]

\* ocr_image, lines 58-61: the exception its guard ends in, or None
ocr_image_guard(inst) ==
    LET g == ImportGuard(inst)
    IN  IF g.Image = "unbound" THEN Some("NameError")
        ELSE IF g.Image = "None" \/ g.pytesseract = "None" THEN Some("ImportError")
        ELSE None

\* ocr_pdf, lines 105-108
ocr_pdf_guard(inst) ==
    LET g == ImportGuard(inst)
    IN  IF g.pdfplumber = "None" \/ g.pytesseract = "None" THEN Some("ImportError")
        ELSE None

(***************************************************************************)
(* streamlit_app.py: main.  SpecApp is one script run: the widgets hold    *)
(* drawn values, every step of the try block is one action, OCR of a       *)
(* readable file returns one of a few texts or fails on the file, and      *)
(* the report may fail on its writer.                                      *)
(***************************************************************************)
PdfType == "application/pdf"

FileTypes == {"image/png", PdfType}

RunOrder == <<"ocr_nameplate", "extract_nameplate", "ocr_submittal", "extract_submittal",
              "compare", "report">>

After_swapped(step) ==
    IF step = "ocr_nameplate" THEN "ocr_submittal"
    ELSE IF step = "ocr_submittal" THEN "extract_nameplate"
    ELSE IF step = "extract_nameplate" THEN "extract_submittal"
    ELSE IF step = "extract_submittal" THEN "compare"
    ELSE IF step = "compare" THEN "report"
    ELSE "returned"

\* the statement that follows a step of the try block
After(step) ==
    LET i == CHOOSE k \in 1..Len(RunOrder) : RunOrder[k] = step
    IN  IF i = Len(RunOrder) THEN "returned" ELSE RunOrder[i + 1]

AppTexts == {ExampleText, JoinWords(<<<<"1",",","0","0","0">>, <<"V">> >>), <<>>}

\* the exceptions of the model, all subclasses of Exception
Exceptions == {"ImportError", "NameError", "OSError"}

UploadMessage == [text |-> "Please upload both a nameplate and a submittal to proceed."]

MissingDependency(e) ==
    [text |-> "Missing dependency: {exc}. Please install the required packages.", exc |-> e]

Unexpected(e) == [text |-> "An unexpected error occurred: {exc}", exc |-> e]

InitApp ==
    /\ pc = "main"
    /\ installed \in SUBSET Packages
    /\ uploads \in [run_button : BOOLEAN,
                    nameplate_file : {None} \cup {Some(t) : t \in FileTypes},
                    submittal_file : {None, Some(PdfType)}]
    /\ steps = <<>> /\ messages = <<>> /\ exc = None
    /\ nameplate = None /\ submittal = None /\ results = None
    /\ text = Unused /\ data = Unused /\ raised = FALSE
    /\ field = Unused /\ nameplate_attr = Unused /\ submittal_attr = Unused /\ result = None
    /\ HeapIdle

AppFrame == UNCHANGED <<field, nameplate_attr, submittal_attr, result, data, raised,
                        installed, uploads, heapVars>>

Took(step, outcome) == Append(steps, [step |-> step, outcome |-> outcome])

\* a step returns
Passes(step) ==
    /\ steps' = Took(step, "ok")
    /\ pc' = After(step)
    /\ exc' = exc

\* a step raises e, which leaves the try block
Fails(step, e) ==
    /\ steps' = Took(step, e)
    /\ pc' = "except"
    /\ exc' = Some(e)

\* lines 59: the button was not pressed
NoRun ==
    /\ pc = "main" /\ ~uploads.run_button
    /\ pc' = "returned"
    /\ UNCHANGED <<steps, messages, exc, nameplate, submittal, results, text>>
    /\ AppFrame

\* lines 60-62
RejectUploads ==
    /\ pc = "main" /\ uploads.run_button
    /\ IsNone(uploads.nameplate_file) \/ IsNone(uploads.submittal_file)
    /\ messages' = Append(messages, UploadMessage)
    /\ pc' = "returned"
    /\ UNCHANGED <<steps, exc, nameplate, submittal, results, text>>
    /\ AppFrame

\* line 63: the try block is entered
BeginRun ==
    /\ pc = "main" /\ uploads.run_button
    /\ ~IsNone(uploads.nameplate_file) /\ ~IsNone(uploads.submittal_file)
    /\ pc' = RunOrder[1]
    /\ UNCHANGED <<steps, messages, exc, nameplate, submittal, results, text>>
    /\ AppFrame

\* an OCR call whose guard passed reads the file: some text, or a failure
ReadFile(step, guard) ==
    IF ~IsNone(guard)
    THEN Fails(step, Get(guard)) /\ text' = text
    ELSE \/ \E t \in AppTexts : Passes(step) /\ text' = t
         \/ Fails(step, "OSError") /\ text' = text

\* lines 65-71: ocr_pdf for a PDF, ocr_image otherwise, then words_to_text
OcrNameplate ==
    /\ pc = "ocr_nameplate"
    /\ ReadFile("ocr_nameplate",
                IF Get(uploads.nameplate_file) = PdfType
                THEN ocr_pdf_guard(installed) ELSE ocr_image_guard(installed))
    /\ UNCHANGED <<messages, nameplate, submittal, results>>
    /\ AppFrame

\* line 72
ExtractNameplate ==
    /\ pc = "extract_nameplate"
    /\ IF IsNone(ParseError(text))
       THEN Passes("extract_nameplate") /\ nameplate' = Some(parse_nameplate_text(text))
       ELSE Fails("extract_nameplate", Get(ParseError(text))) /\ nameplate' = nameplate
    /\ UNCHANGED <<messages, submittal, results, text>>
    /\ AppFrame

\* lines 75-78
OcrSubmittal ==
    /\ pc = "ocr_submittal"
    /\ ReadFile("ocr_submittal", ocr_pdf_guard(installed))
    /\ UNCHANGED <<messages, nameplate, submittal, results>>
    /\ AppFrame

\* line 79
ExtractSubmittal ==
    /\ pc = "extract_submittal"
    /\ IF IsNone(ParseError(text))
       THEN Passes("extract_submittal") /\ submittal' = Some(parse_submittal_text(text))
       ELSE Fails("extract_submittal", Get(ParseError(text))) /\ submittal' = submittal
    /\ UNCHANGED <<messages, nameplate, results, text>>
    /\ AppFrame

\* line 83
Compare ==
    /\ pc = "compare"
    /\ Passes("compare")
    /\ results' = Some(compare_equipment(Get(nameplate), Get(submittal)))
    /\ UNCHANGED <<messages, nameplate, submittal, text>>
    /\ AppFrame

\* lines 84-104: the table, the Excel file and the summary; the Excel writer
\* may lack its engine (ImportError) or fail on the file (OSError)
Report ==
    /\ pc = "report"
    /\ \/ Passes("report")
       \/ \E e \in {"ImportError", "OSError"} : Fails("report", e)
    /\ UNCHANGED <<messages, nameplate, submittal, results, text>>
    /\ AppFrame

\* lines 106-109: the message of the except clause that catches e, None
\* when no clause does
Handler(e) ==
    IF e = "ImportError" THEN Some(MissingDependency(e))
    ELSE IF e \in Exceptions THEN Some(Unexpected(e))
    ELSE None

\* the exception reaches the except clauses; uncaught, it leaves main
Except ==
    /\ pc = "except"
    /\ IF IsNone(Handler(Get(exc)))
       THEN pc' = "crashed" /\ messages' = messages /\ exc' = exc
       ELSE pc' = "returned" /\ messages' = Append(messages, Get(Handler(Get(exc))))
                             /\ exc' = None
    /\ UNCHANGED <<steps, nameplate, submittal, results, text>>
    /\ AppFrame

NextApp ==
    \/ NoRun \/ RejectUploads \/ BeginRun
    \/ OcrNameplate \/ ExtractNameplate \/ OcrSubmittal \/ ExtractSubmittal
    \/ Compare \/ Report \/ Except

SpecApp == InitApp /\ [][NextApp]_vars

(***************************************************************************)
(* Objects and references.  SpecHeap runs two parse_nameplate_text calls   *)
(* and one compare_equipment call as threads over one heap: an             *)
(* AttributeValue, a source dict and an EquipmentData are objects with an  *)
(* identity, a record holds references to its AttributeValues and an       *)
(* AttributeValue a reference to its source dict.  A thread takes one      *)
(* statement of its function per step.                                     *)
(***************************************************************************)
ParseCalls == {"parse_1", "parse_2"}

CompareCall == "compare"

Callers == ParseCalls \cup {CompareCall}

NewId_shared(owner, n) == <<"shared", n>>

\* default_factory / AttributeValue(...) / {}: a constructor call returns an
\* object distinct from every other live object; n counts the caller's own
\* constructions
NewId(owner, n) == <<owner, n>>

IndexOf(f) == CHOOSE i \in 1..Len(FieldNames) : FieldNames[i] = f

Put(fn, id, v) == [x \in DOMAIN fn \cup {id} |-> IF x = id THEN v ELSE fn[x]]

\* the value of the AttributeValue object a, its source dict read through
DerefAttr(h, a) ==
    [value |-> h.av[a].value, unit |-> h.av[a].unit, source |-> h.dict[h.av[a].source]]

\* the value of the EquipmentData object r
DerefData(h, r) == [f \in Range(FieldNames) |-> DerefAttr(h, h.rec[r][f])]

\* EquipmentData() at line 94: the record object and, per field, one default
\* AttributeValue(None) with its own dict
Construct(h, owner, values) ==
    [rec  |-> Put(h.rec, NewId(owner, 0),
                  [f \in Range(FieldNames) |-> NewId(owner, IndexOf(f))]),
     av   |-> [x \in DOMAIN h.av \cup {NewId(owner, i) : i \in 1..Len(FieldNames)} |->
                 IF \E i \in 1..Len(FieldNames) : x = NewId(owner, i)
                 THEN LET i == CHOOSE k \in 1..Len(FieldNames) : x = NewId(owner, k)
                      IN  [value  |-> values[FieldNames[i]].value,
                           unit   |-> values[FieldNames[i]].unit,
                           source |-> NewId(owner, i)]
                 ELSE h.av[x]],
     dict |-> [x \in DOMAIN h.dict \cup {NewId(owner, i) : i \in 1..Len(FieldNames)} |->
                 IF \E i \in 1..Len(FieldNames) : x = NewId(owner, i)
                 THEN LET i == CHOOSE k \in 1..Len(FieldNames) : x = NewId(owner, k)
                      IN  values[FieldNames[i]].source
                 ELSE h.dict[x]]]

EmptyHeap == [rec |-> <<>>, av |-> <<>>, dict |-> <<>>]

\* data.f = AttributeValue(value=..., unit=..., source={}): a new dict, a new
\* AttributeValue referring to it, and the record's field set to the latter
SetField(h, r, f, id, attr) ==
    [rec  |-> [h.rec EXCEPT ![r][f] = id],
     av   |-> Put(h.av, id, [value |-> attr.value, unit |-> attr.unit, source |-> id]),
     dict |-> Put(h.dict, id, attr.source)]

InputTexts == {ExampleText, <<"5", ".", "5", " ", "k", "W">>}

InitHeap ==
    /\ pc = "threads"
    /\ \E n \in InputTexts, s \in InputTexts, t \in [ParseCalls -> AppTexts] :
          /\ heap = Construct(Construct(EmptyHeap, "nameplate", parse_nameplate_text(n)),
                              "submittal", parse_submittal_text(s))
          /\ calls = [c \in Callers |->
                        IF c = CompareCall
                        THEN [pc |-> FieldNames[1], text |-> <<>>,
                              nameplate |-> Some(NewId("nameplate", 0)),
                              submittal |-> Some(NewId("submittal", 0)),
                              given |-> <<parse_nameplate_text(n), parse_submittal_text(s)>>,
                              next |-> 0, data |-> None, results |-> <<>>]
                        ELSE [pc |-> "new", text |-> t[c],
                              nameplate |-> None, submittal |-> None, given |-> <<>>,
                              next |-> 0, data |-> None, results |-> <<>>]]
    /\ AppIdle
    /\ field = Unused /\ nameplate_attr = Unused /\ submittal_attr = Unused /\ result = None
    /\ nameplate = Unused /\ submittal = Unused /\ results = None
    /\ text = Unused /\ data = Unused /\ raised = FALSE

HeapFrame == UNCHANGED <<pc, field, nameplate_attr, submittal_attr, result, nameplate,
                         submittal, results, text, data, raised, appVars>>

NextField(f) == IF IndexOf(f) = Len(FieldNames) THEN "returned" ELSE FieldNames[IndexOf(f) + 1]

\* extraction.py line 94: data = EquipmentData()
NewData(c) ==
    /\ calls[c].pc = "new"
    /\ heap' = Construct(heap, c, EquipmentData)
    /\ calls' = [calls EXCEPT ![c].pc = FieldNames[1],
                              ![c].data = Some(NewId(c, 0)),
                              ![c].next = Len(FieldNames) + 1]
    /\ HeapFrame

\* extraction.py lines 95-154: the search for one field and, when it found a
\* value, the assignment to the field; after the last field, return data
SetFound(c) ==
    /\ calls[c].pc \in Range(FieldNames)
    /\ LET f     == calls[c].pc
           found == parse_nameplate_text(calls[c].text)[f]
       IN  /\ ~IsNone(found.value)
           /\ heap' = SetField(heap, Get(calls[c].data), f, NewId(c, calls[c].next), found)
           /\ calls' = [calls EXCEPT ![c].pc = NextField(f), ![c].next = @ + 1]
    /\ HeapFrame

SkipMissing(c) ==
    /\ calls[c].pc \in Range(FieldNames)
    /\ LET f == calls[c].pc
       IN  /\ IsNone(parse_nameplate_text(calls[c].text)[f].value)
           /\ calls' = [calls EXCEPT ![c].pc = NextField(f)]
    /\ heap' = heap
    /\ HeapFrame

\* comparison.py lines 171-175: one turn of the loop, reading both attributes
\* through the records; the result keeps the references to the two source
\* dicts (lines 160-161), the other members are values
CompareField ==
    /\ calls[CompareCall].pc \in Range(FieldNames)
    /\ LET f       == calls[CompareCall].pc
           np_attr == heap.rec[Get(calls[CompareCall].nameplate)][f]
           sm_attr == heap.rec[Get(calls[CompareCall].submittal)][f]
           res     == compare_attribute(DerefAttr(heap, np_attr), DerefAttr(heap, sm_attr), f)
       IN  calls' = [calls EXCEPT ![CompareCall].pc = NextField(f),
                                  ![CompareCall].results =
                                      Append(@, [res EXCEPT !.nameplate_source = heap.av[np_attr].source,
                                                            !.submittal_source = heap.av[sm_attr].source])]
    /\ heap' = heap
    /\ HeapFrame

NextHeap ==
    \/ \E c \in ParseCalls : NewData(c) \/ SetFound(c) \/ SkipMissing(c)
    \/ CompareField

SpecHeap == InitHeap /\ [][NextHeap]_vars

(***************************************************************************)
(* Properties of compare_attribute (checked under SpecAttr).               *)
(***************************************************************************)
AttrDone == pc = "done" /\ ~IsNone(result)

Res == Get(result)

BothPresent == ~IsNone(nameplate_attr.value) /\ ~IsNone(submittal_attr.value)

NumericDone == AttrDone /\ field \in numeric_fields /\ BothPresent

CategoricalDone == AttrDone /\ field \in categorical_fields /\ BothPresent

\* a unit tag read as the spec reads it: surrounding blanks and case ignored
IsUnit(unit, name) == ~IsNone(unit) /\ Lower(Strip(Get(unit))) = name

\* the comparable magnitude of the claims: watts of power are divided by 1000
Magnitude(f, attr) ==
    IF f = "power" /\ IsUnit(attr.unit, <<"w">>)
    THEN Get(attr.value) \div Thousand
    ELSE Get(attr.value)

RefMag == Magnitude(field, nameplate_attr)

CandMag == Magnitude(field, submittal_attr)

\* the status the tolerance rule assigns to d = |r - c| / c * 100, c # 0:
\* d is (100 * |r - c|) / c;  none of the magnitudes drawn reaches 10^6, so
\* for c > 0, d < 1e-6 exactly when r = c;  for c < 0, d <= 0 < 1e-6
BandStatus(r, c) ==
    IF c < 0 \/ r = c THEN "Compliant"
    ELSE IF 100 * Abs(r - c) <= 5 * c THEN "Minor Deviation"
    ELSE "Non-Compliant"

IsNumber(attr, n, f) == attr.value = Some(Num(n)) /\ ~(f = "power" /\ IsUnit(attr.unit, <<"w">>))

\* C1: two present numeric values with a non-zero candidate are classified
\* by d = |reference - candidate| / candidate * 100 of the normalised
\* magnitudes: d < 1e-6 Compliant, else d <= 5.0 Minor Deviation (105 vs 100
\* included), else Non-Compliant (106 vs 100).
C1_ToleranceBands ==
    (NumericDone /\ CandMag # 0) =>
        /\ Res.status = BandStatus(RefMag, CandMag)
        /\ (IsNumber(nameplate_attr, 105, field) /\ IsNumber(submittal_attr, 100, field))
              => Res.status = "Minor Deviation"
        /\ (IsNumber(nameplate_attr, 106, field) /\ IsNumber(submittal_attr, 100, field))
              => Res.status = "Non-Compliant"

C1_Witness ==
    /\ NumericDone /\ field = "voltage"
    /\ IsNumber(nameplate_attr, 105, field) /\ IsNumber(submittal_attr, 100, field)
    /\ Res.status = "Minor Deviation"

\* C3: for every field, both values None gives Not Found; exactly one None
\* gives Non-Compliant with a comment naming the missing side; a missing
\* value is never Compliant or Minor Deviation.
C3_MissingValues ==
    (AttrDone /\ ~BothPresent) =>
        /\ Res.status \notin {"Compliant", "Minor Deviation"}
        /\ (IsNone(nameplate_attr.value) /\ IsNone(submittal_attr.value))
              => Res.status = "Not Found"
        /\ (IsNone(nameplate_attr.value) /\ ~IsNone(submittal_attr.value))
              => /\ Res.status = "Non-Compliant"
                 /\ Res.comment = [template |-> "No value on nameplate."]
        /\ (~IsNone(nameplate_attr.value) /\ IsNone(submittal_attr.value))
              => /\ Res.status = "Non-Compliant"
                 /\ Res.comment = [template |-> "No value in submittal."]

C3_Witness ==
    /\ AttrDone /\ field = "power"
    /\ ~IsNone(nameplate_attr.value) /\ IsNone(submittal_attr.value)
    /\ Res.status = "Non-Compliant"

\* C4: a zero candidate never reaches the division: both zero is Compliant,
\* a zero candidate with a non-zero reference is Non-Compliant and the
\* comment states the reference value.
C4_ZeroCandidate ==
    (NumericDone /\ CandMag = 0) =>
        /\ Res.status # "ZeroDivisionError"
        /\ RefMag = 0 => Res.status = "Compliant"
        /\ RefMag # 0 => /\ Res.status = "Non-Compliant"
                         /\ Res.comment.n_val = RefMag

C4_Witness ==
    /\ NumericDone /\ CandMag = 0 /\ RefMag = Num(5)
    /\ Res.status = "Non-Compliant"

\* t is s without its surrounding blanks
TrimmedOf(s, t) ==
    /\ t = <<>> \/ (t[1] # " " /\ t[Len(t)] # " ")
    /\ \E i \in 0..Len(s) :
          /\ i + Len(t) <= Len(s)
          /\ \A k \in 1..Len(s) :
                IF k > i /\ k <= i + Len(t) THEN s[k] = t[k - i] ELSE s[k] = " "

SameLetter(c, d) ==
    \/ c = d
    \/ \E i \in 1..26 : {c, d} = {UpperChars[i], LowerChars[i]}

\* a and b are equal up to surrounding blanks and letter case
EqualIgnoringCaseAndBlanks(a, b) ==
    \E i \in 1..(Len(a) + 1), j \in 0..Len(a), k \in 1..(Len(b) + 1), l \in 0..Len(b) :
        /\ TrimmedOf(a, SubSeq(a, i, j))
        /\ TrimmedOf(b, SubSeq(b, k, l))
        /\ j - i = l - k
        /\ \A m \in 0..(j - i) : SameLetter(a[i + m], b[k + m])

IsText(attr, str) == attr.value = Some(str)

\* C5: a categorical field with both values present is Compliant exactly
\* when the values are equal after trimming surrounding whitespace and
\* case-folding ("ABB" vs "abb"), Non-Compliant otherwise, and never Minor
\* Deviation.
C5_CategoricalMatch ==
    CategoricalDone =>
        /\ Res.status \in {"Compliant", "Non-Compliant"}
        /\ Res.status = "Compliant"
              <=> EqualIgnoringCaseAndBlanks(Get(nameplate_attr.value), Get(submittal_attr.value))
        /\ (IsText(nameplate_attr, <<"A","B","B">>) /\ IsText(submittal_attr, <<"a","b","b">>))
              => Res.status = "Compliant"

C5_Witness ==
    /\ CategoricalDone /\ field = "manufacturer"
    /\ IsText(nameplate_attr, <<"A","B","B">>) /\ IsText(submittal_attr, <<"a","b","b">>)
    /\ Res.status = "Compliant"

\* C6: the candidate is the denominator, so the comparison is not
\* symmetric: for distinct non-zero values the result of the swapped
\* comparison differs, and the status can change (100 vs 95 is
\* Non-Compliant, 95 vs 100 is Minor Deviation).
C6_Asymmetric ==
    (NumericDone /\ RefMag # 0 /\ CandMag # 0
                 /\ Get(nameplate_attr.value) # Get(submittal_attr.value)) =>
        /\ Res # compare_attribute(submittal_attr, nameplate_attr, field)
        /\ (IsNumber(nameplate_attr, 100, field) /\ IsNumber(submittal_attr, 95, field))
              => /\ Res.status = "Non-Compliant"
                 /\ compare_attribute(submittal_attr, nameplate_attr, field).status
                       = "Minor Deviation"

C6_Witness ==
    /\ NumericDone /\ field = "current"
    /\ IsNumber(nameplate_attr, 100, field) /\ IsNumber(submittal_attr, 95, field)
    /\ Res.status = "Non-Compliant"

\* the same number carrying no unit tag
Untagged(n) == AttributeValue(Some(n), None, EmptySource)

\* C7: of the unit tags only W changes the compared magnitude, by a
\* division by 1000 (5000 W vs 5 kW and 5 kW vs 5 kVA are Compliant); kW
\* and kVA leave a power value unchanged, and the status of a voltage,
\* current or frequency comparison is the status of its two bare numbers.
C7_UnitNormalisation ==
    (NumericDone /\ (field = "power" =>
                        \A a \in {nameplate_attr, submittal_attr} :
                            \E t \in {<<"w">>, <<"k","w">>, <<"k","v","a">>} : IsUnit(a.unit, t))) =>
        /\ Res.status = compare_attribute(Untagged(RefMag), Untagged(CandMag), field).status
        /\ field # "power" => RefMag = Get(nameplate_attr.value) /\ CandMag = Get(submittal_attr.value)
        /\ (field = "power" /\ RefMag = CandMag /\ CandMag = Num(5)) => Res.status = "Compliant"

C7_Witness ==
    /\ NumericDone /\ field = "power"
    /\ nameplate_attr.value = Some(Num(5000)) /\ IsUnit(nameplate_attr.unit, <<"w">>)
    /\ submittal_attr.value = Some(Num(5)) /\ IsUnit(submittal_attr.unit, <<"k","w">>)
    /\ Res.status = "Compliant"

(***************************************************************************)
(* Properties of parse_nameplate_text (checked under SpecParse).           *)
(***************************************************************************)
Returned == pc \in {"nameplate_parsed", "submittal_parsed"}

ParseDone == Returned /\ ~IsNone(data)

Data == Get(data)

LowerText == Lower(text)

\* some label stands in s, followed after optional blanks by a separator
Labelled(s, labels) ==
    \E n \in 1..Len(labels), i \in 1..Len(s) :
        /\ LitAt(s, i, labels[n])
        /\ \E j \in (i + Len(labels[n]))..Len(s) :
              /\ s[j] \in {":", "-"}
              /\ \A k \in (i + Len(labels[n]))..(j - 1) : s[k] = " "

\* a digit stands in s, followed after optional blanks by a unit
Quantified(s, units) ==
    \E i \in 1..Len(s) :
        /\ s[i] \in Digits
        /\ \E j \in (i + 1)..Len(s) :
              /\ \A k \in (i + 1)..(j - 1) : s[k] = " "
              /\ \E n \in 1..Len(units) : LitAt(s, j, units[n])

\* the text holds something the field's pattern can match
Mentions(f) ==
    IF f = "manufacturer" THEN Labelled(LowerText, ManufacturerLabels)
    ELSE IF f = "model" THEN Labelled(LowerText, ModelLabels)
    ELSE IF f = "serial_number" THEN Labelled(LowerText, SerialLabels)
    ELSE IF f \in numeric_fields THEN Quantified(LowerText, NumericPatterns(f)[1])
    ELSE IF f = "ip_rating" THEN Contains(LowerText, <<"i","p">>)
    ELSE \E n \in 1..Len(CertKeywords) : Contains(LowerText, CertKeywords[n])

\* C8: parsing is total over strings: every call returns a record of the
\* nine fields and raises nothing, a field whose pattern matches nothing
\* is None, and the empty text gives nine None values.
C8_ParseTotal ==
    Returned =>
        /\ ~raised
        /\ ParseDone
        /\ DOMAIN Data = {"manufacturer", "model", "serial_number", "voltage", "current",
                          "power", "frequency", "ip_rating", "certification"}
        /\ \A f \in DOMAIN Data :
              /\ DOMAIN Data[f] = {"value", "unit", "source"}
              /\ ~Mentions(f) => IsNone(Data[f].value)
        /\ text = <<>> => \A f \in DOMAIN Data : IsNone(Data[f].value)

C8_Witness ==
    /\ ParseDone /\ ~raised
    /\ text = JoinWords(<<<<"A","B","B">>, <<"1","2">>>>)
    /\ \A f \in DOMAIN Data : IsNone(Data[f].value)

Holds(f, value, unit) == Data[f].value = Some(value) /\ Data[f].unit = unit

\* C9: the text "Manufacturer: ABB Model: M100 400V 50Hz IP65 ATEX CE" is
\* extracted as manufacturer "abb", model "m100", voltage (400.0, "v"),
\* frequency (50.0, "hz"), ip_rating "IP65", certification "ATEX, CE":
\* each labelled field stops before the next label.
C9_EndToEndExample ==
    (ParseDone /\ text = ExampleText) =>
        /\ Holds("manufacturer", <<"a","b","b">>, None)
        /\ Holds("model", <<"m","1","0","0">>, None)
        /\ Holds("voltage", Num(400), Some(<<"v">>))
        /\ Holds("frequency", Num(50), Some(<<"h","z">>))
        /\ Holds("ip_rating", <<"I","P","6","5">>, None)
        /\ Holds("certification", <<"A","T","E","X",","," ","C","E">>, None)

\* C10: a quantity written with thousands separators is extracted whole:
\* "1,000 V" gives voltage 1000.0, "1,500 kW" power 1500.0, "2,000 A"
\* current 2000.0.
C10_ThousandsSeparators ==
    ParseDone =>
        /\ text = JoinWords(<<<<"1",",","0","0","0">>, <<"V">> >>) => Data["voltage"].value = Some(Num(1000))
        /\ text = JoinWords(<<<<"1",",","5","0","0">>, <<"k","W">> >>) => Data["power"].value = Some(Num(1500))
        /\ text = JoinWords(<<<<"2",",","0","0","0">>, <<"A">> >>) => Data["current"].value = Some(Num(2000))

(***************************************************************************)
(* Negative values (checked under SpecAttr).                               *)
(***************************************************************************)
\* C14: two present numeric values, negative ones included, are Compliant
\* only when both normalised values are zero or they differ by less than
\* 1e-6 percent of the candidate's magnitude; reference 100 against
\* candidate -100 is not Compliant with "Values are identical.".
\* (No magnitude drawn reaches 10^6, so the difference is below 1e-6
\* percent of |candidate| exactly when the two magnitudes are equal.)
C14_CompliantOnlyWhenClose ==
    (NumericDone /\ Res.status = "Compliant") =>
        \/ RefMag = 0 /\ CandMag = 0
        \/ CandMag # 0 /\ Abs(RefMag - CandMag) <= (Abs(CandMag) - 1) \div 100000000

(***************************************************************************)
(* Properties of a front-end run (checked under SpecApp).                  *)
(***************************************************************************)
RunStarted == Len(steps) > 0

LastStep == steps[Len(steps)]

\* C11: whenever pillow, pytesseract or pdfplumber is not installed, the
\* OCR call of the run raises ImportError, and the one message the front
\* end shows is its "Missing dependency" message, not the generic one.
C11_MissingDependencySignalled ==
    (RunStarted /\ installed # {"pillow", "pytesseract", "pdfplumber"}) =>
        /\ LastStep.step \in {"ocr_nameplate", "ocr_submittal"}
        /\ LastStep.outcome = "ImportError"
        /\ pc = "returned" => messages = <<MissingDependency("ImportError")>>

BothUploaded == ~IsNone(uploads.nameplate_file) /\ ~IsNone(uploads.submittal_file)

FailedSteps == {i \in 1..Len(steps) : steps[i].outcome # "ok"}

\* C13: a run takes its steps in the order OCR(nameplate),
\* extraction(nameplate), OCR(submittal), extraction(submittal), comparison,
\* reporting, and only with both files uploaded (otherwise one error and no
\* step); a failing step is the last step taken, is answered by exactly one
\* message, and main returns: no exception leaves it.
C13_RunOrderAndBoundary ==
        LET order == <<"ocr_nameplate", "extract_nameplate", "ocr_submittal",
                       "extract_submittal", "compare", "report">>
        IN  /\ pc # "crashed"
            /\ pc = "except" => ~IsNone(exc) /\ ~IsNone(Handler(Get(exc)))
            /\ Len(steps) <= 6 /\ \A i \in 1..Len(steps) : steps[i].step = order[i]
            /\ RunStarted => uploads.run_button /\ BothUploaded
            /\ FailedSteps \subseteq {Len(steps)}
            /\ Len(messages) <= 1
            /\ pc = "returned" =>
                  IF ~uploads.run_button THEN ~RunStarted /\ messages = <<>>
                  ELSE IF ~BothUploaded THEN ~RunStarted /\ messages = <<UploadMessage>>
                  ELSE IF FailedSteps # {}
                  THEN Len(messages) = 1 /\ messages[1].exc = LastStep.outcome
                  ELSE Len(steps) = 6 /\ messages = <<>>

C13_Witness ==
    /\ pc = "returned" /\ RunStarted
    /\ Len(steps) = 3 /\ LastStep.step = "ocr_submittal" /\ LastStep.outcome = "OSError"
    /\ messages = <<Unexpected("OSError")>>

(***************************************************************************)
(* Properties of concurrent calls (checked under SpecHeap).                *)
(***************************************************************************)
Started(c) == ~IsNone(calls[c].data)

Finished(c) == calls[c].pc = "returned"

\* the AttributeValue objects and the source dicts a record reaches
AttrsOf(r) == {heap.rec[r][f] : f \in Range(FieldNames)}

SourcesOf(r) == {heap.av[a].source : a \in AttrsOf(r)}

InputData == {Get(calls[CompareCall].nameplate), Get(calls[CompareCall].submittal)}

\* the list compare_equipment returned, its source dicts read through
ResultsRead ==
    [i \in 1..Len(calls[CompareCall].results) |->
        [calls[CompareCall].results[i] EXCEPT
            !.nameplate_source = heap.dict[@], !.submittal_source = heap.dict[@]]]

\* C12: in every interleaving of two extraction calls and a comparison call,
\* the records of the two extractions share no AttributeValue and no source
\* dict with each other or with the comparison's inputs, the comparison's
\* input records keep their values, every finished call has the result it
\* has when run alone, and two extractions of one text return equal records.
C12_NoSharedState ==
    /\ \A c \in ParseCalls : Started(c) =>
          /\ \A d \in ParseCalls \ {c} : Started(d) =>
                /\ AttrsOf(Get(calls[c].data)) \cap AttrsOf(Get(calls[d].data)) = {}
                /\ SourcesOf(Get(calls[c].data)) \cap SourcesOf(Get(calls[d].data)) = {}
          /\ \A r \in InputData :
                /\ AttrsOf(Get(calls[c].data)) \cap AttrsOf(r) = {}
                /\ SourcesOf(Get(calls[c].data)) \cap SourcesOf(r) = {}
    /\ DerefData(heap, Get(calls[CompareCall].nameplate)) = calls[CompareCall].given[1]
    /\ DerefData(heap, Get(calls[CompareCall].submittal)) = calls[CompareCall].given[2]
    /\ \A c \in ParseCalls : Finished(c) =>
          DerefData(heap, Get(calls[c].data)) = parse_nameplate_text(calls[c].text)
    /\ Finished(CompareCall) =>
          ResultsRead = compare_equipment(calls[CompareCall].given[1], calls[CompareCall].given[2])
    /\ \A c, d \in ParseCalls :
          (Finished(c) /\ Finished(d) /\ calls[c].text = calls[d].text) =>
              DerefData(heap, Get(calls[c].data)) = DerefData(heap, Get(calls[d].data))

C12_Witness ==
    /\ \A c \in Callers : Finished(c)
    /\ \A c \in ParseCalls : calls[c].text = ExampleText
    /\ calls[CompareCall].given[1] # calls[CompareCall].given[2]

====
